---- MODULE Spec2Model ----
(***************************************************************************)
(* Tasks, profiles and the points ledger of mentor-track-forge.            *)
(*                                                                         *)
(* The database side is the migration 20250918162251: the tables profiles  *)
(* and tasks, their row-level policies and the AFTER UPDATE trigger        *)
(* update_user_points -> calculate_user_points().  The client side is the  *)
(* Dashboard auth listener, EmployeeDashboard.createTask and               *)
(* InternDashboard.fetchTasks / updateTaskStatus.                          *)
(*                                                                         *)
(* A request of the client is one statement, which the database runs in    *)
(* one transaction together with the triggers it fires; the trigger        *)
(* function is SECURITY INVOKER, so the statements it issues are subject   *)
(* to the policies of the calling identity.  Row locks serialise the       *)
(* transactions that touch the same row, so a transaction is one step.     *)
(***************************************************************************)
EXTENDS Integers, FiniteSets, Sequences, Bags, TLC

\* ------------------------------------------------------------------ bounds
MaxTasks == 1
MaxInFlight == 2
MaxBalance == 10
MaxSelfUpdates == 1
MaxMessages == 2
MaxFetches == 2
MaxUploads == 2
MaxRecords == 1
MaxCallbacks == 2

\* --------------------------------------------------------------- constants
DefaultPoints == 10
OverduePenalty == 5
MaxFileSize == 5 * 1024 * 1024

NULL == "null"
\* the null of a task id and of an object name
NoTask == 0
NoObject == [folder |-> <<>>, file |-> [uuid |-> 0, ext |-> ""]]
Now == "now"
DashboardRoute == "/dashboard"
AuthRoute == "/auth"
SERVICE == "service_role"

Users == {"u1", "u2"}
\* user_metadata.role of each identity, chosen on the sign-up form
MetadataRole == [u \in Users |-> IF u = "u1" THEN NULL ELSE "employee"]
\* values a profile row's owner may write into its role column
SelfRoles == {"intern", "employee"}
Roles == {"intern", "employee", "admin"}
Statuses == {"pending", "in_progress", "completed", "overdue"}
TaskIds == 1..MaxTasks
\* the identities of the chat: a third one beside a sender and a receiver
ChatUsers == Users \cup {"u3"}
\* what the message input can hold
Contents == {"", " ", "hi"}

\* what the points field of the create-task form can hold as e.target.value:
\* the empty string, or the decimal text of a number
PointsEntries == {[kind |-> "empty", n |-> 0], [kind |-> "num", n |-> 0],
                  [kind |-> "num", n |-> 3], [kind |-> "num", n |-> -3]}
Titles == {"", "t"}
\* values a profile row's owner may write into its points column
SelfPoints == {-1}

\* Strings the upload code takes apart are sequences of their pieces:
\* "image/png" is <<"image", "/", "png">>, "cv.docx" is <<"cv", ".", "docx">>.
FileKinds ==
    {[name |-> <<"photo", ".", "png">>, type |-> <<"image", "/", "png">>],
     [name |-> <<"report", ".", "pdf">>, type |-> <<"application", "/", "pdf">>],
     [name |-> <<"notes", ".", "txt">>, type |-> <<"text", "/", "plain">>],
     [name |-> <<"cv", ".", "docx">>, type |-> <<"application", "/", "msword">>],
     [name |-> <<"setup", ".", "exe">>, type |-> <<"application", "/", "x-msdownload">>],
     [name |-> <<"README">>, type |-> <<>>]}
FileSizes == {1024, MaxFileSize, MaxFileSize + 1, 6 * 1024 * 1024}
\* the File objects a selection or a drop can hold
Files == {[name |-> k.name, type |-> k.type, size |-> n] : k \in FileKinds, n \in FileSizes}

VARIABLES
    profiles,    \* table public.profiles: user_id -> [role, points]
    tasks,       \* table public.tasks: sequence of rows, id = index
    profile,     \* Dashboard state `profile` of each user's session (its role)
    tasksView,   \* InternDashboard state `tasks` of each session: id -> status
    inflight,    \* bag of updateTaskStatus requests awaiting the database
    selfUpdates, \* number of updates the users made to their own profiles rows
    last,        \* outcome of the step just taken
    chat_messages, \* table public.chat_messages: sequence of rows, id = index
    selectedUser,  \* ChatSystem state `selectedUser` of each session ("" = none)
    messages,      \* ChatSystem state `messages` of each session: set of ids
    fetching,      \* fetchMessages calls under way: [user, peer, pc, data]
    observed,      \* the latest read of chat_messages: who read, which ids
    marked,        \* the mark-as-read update that ran last: the rows it left
                   \* out of the list its fetch returned, the rows it changed
    file_uploads,  \* table public.file_uploads: sequence of rows, id = index
    objects,       \* storage.objects of bucket 'files': the set of names
    files,         \* FileUpload state `files`, with each upload's position
    downloaded,    \* the latest read of file_uploads or of a blob
    reordered,     \* tasks and profiles had two status changes run swapped
    profileRows,   \* table public.profiles: the number of rows per user_id
    callbacks,     \* bag of onAuthStateChange callbacks under way: [user, pc]
    loading,       \* Dashboard state `loading` of each browser
    user,          \* Dashboard state `user` of each browser (NULL = none)
    route          \* the route each browser shows

chatVars == <<chat_messages, selectedUser, messages, fetching, observed, marked>>

taskVars == <<profiles, tasks, profile, tasksView, inflight, selfUpdates, last>>

uploadVars == <<file_uploads, objects, files, downloaded>>

authVars == <<profileRows, callbacks, loading, user, route>>

vars == <<profiles, tasks, profile, tasksView, inflight, selfUpdates, last,
          chatVars, uploadVars, reordered, authVars>>

\* ---------------------------------------------------------------- database
HasProfile(profs, uid) == uid \in DOMAIN profs

\* EXISTS (SELECT 1 FROM profiles WHERE user_id = auth.uid()
\*         AND role IN ('admin','employee'))
IsStaff(profs, uid) ==
    HasProfile(profs, uid) /\ profs[uid].role \in {"admin", "employee"}

\* the insert policy without its role test
CanCreateTask_anyProfile(profs, uid) == HasProfile(profs, uid)

\* policy "Employees and admins can create tasks"
CanCreateTask(profs, uid) == IsStaff(profs, uid)

\* policy "Employees and admins can update tasks"
CanUpdateTask(profs, uid) == IsStaff(profs, uid)

\* the select policy admitting every caller
CanViewTask_everyone(profs, uid, row) == TRUE

\* policy "Users can view tasks assigned to them or created by them"
CanViewTask(profs, uid, row) ==
    \/ row.assignee_id = uid
    \/ row.created_by = uid
    \/ IsStaff(profs, uid)

\* policy "Users can update their own profile"
CanUpdateProfile(uid, user_id) == uid = SERVICE \/ uid = user_id

\* policy "Users can insert their own profile"
CanInsertProfile(uid, user_id) == uid = user_id

\* CHECK (role IN ('intern','employee','admin'))
RoleCheck(role) == role \in Roles

\* a profiles table whose user_id column is not UNIQUE
UniqueUserId_absent(rows, uid) == TRUE

\* user_id UUID NOT NULL UNIQUE: an insert needs that no row holds the value
UniqueUserId(rows, uid) == rows[uid] = 0

\* GREATEST left out: a plain subtraction
GREATEST_unfloored(a, b) == b

GREATEST(a, b) == IF a >= b THEN a ELSE b

\* UPDATE profiles SET points = points + n WHERE user_id = target, as uid
CreditPoints(profs, uid, target, n) ==
    IF HasProfile(profs, target) /\ CanUpdateProfile(uid, target)
    THEN [profs EXCEPT ![target].points = @ + n]
    ELSE profs

\* UPDATE profiles SET points = GREATEST(0, points - n)
\* WHERE user_id = target, as uid
DebitPoints(profs, uid, target, n) ==
    IF HasProfile(profs, target) /\ CanUpdateProfile(uid, target)
    THEN [profs EXCEPT ![target].points = GREATEST(0, @ - n)]
    ELSE profs

\* the trigger without its test of the previous status: it credits whenever
\* the written status is completed
calculate_user_points_levelTriggered(profs, OLDrow, NEWrow, uid) ==
    LET points_to_add == IF NEWrow.status = "completed" THEN NEWrow.points ELSE 0
        points_to_subtract ==
            IF NEWrow.status = "overdue" /\ OLDrow.status # "overdue"
            THEN OverduePenalty ELSE 0
        afterAdd ==
            IF points_to_add > 0
            THEN CreditPoints(profs, uid, NEWrow.assignee_id, points_to_add)
            ELSE profs
    IN  IF points_to_subtract > 0
        THEN DebitPoints(afterAdd, uid, NEWrow.assignee_id, points_to_subtract)
        ELSE afterAdd

\* the trigger taking the credit back when a task leaves completed
calculate_user_points_revokeOnReopen(profs, OLDrow, NEWrow, uid) ==
    LET points_to_add ==
            IF NEWrow.status = "completed" /\ OLDrow.status # "completed"
            THEN NEWrow.points ELSE 0
        points_to_subtract ==
            IF NEWrow.status = "overdue" /\ OLDrow.status # "overdue"
            THEN OverduePenalty
            ELSE IF OLDrow.status = "completed" /\ NEWrow.status # "completed"
                 THEN NEWrow.points ELSE 0
        afterAdd ==
            IF points_to_add > 0
            THEN CreditPoints(profs, uid, NEWrow.assignee_id, points_to_add)
            ELSE profs
    IN  IF points_to_subtract > 0
        THEN DebitPoints(afterAdd, uid, NEWrow.assignee_id, points_to_subtract)
        ELSE afterAdd

\* the trigger charging the creator's profile when the task has no assignee
calculate_user_points_creatorFallback(profs, OLDrow, NEWrow, uid) ==
    LET target == IF NEWrow.assignee_id = NULL THEN NEWrow.created_by
                  ELSE NEWrow.assignee_id
        points_to_add ==
            IF NEWrow.status = "completed" /\ OLDrow.status # "completed"
            THEN NEWrow.points ELSE 0
        points_to_subtract ==
            IF NEWrow.status = "overdue" /\ OLDrow.status # "overdue"
            THEN OverduePenalty ELSE 0
        afterAdd ==
            IF points_to_add > 0
            THEN CreditPoints(profs, uid, target, points_to_add)
            ELSE profs
    IN  IF points_to_subtract > 0
        THEN DebitPoints(afterAdd, uid, target, points_to_subtract)
        ELSE afterAdd

\* trigger function calculate_user_points(), run as uid
calculate_user_points(profs, OLDrow, NEWrow, uid) ==
    LET points_to_add ==
            IF NEWrow.status = "completed" /\ OLDrow.status # "completed"
            THEN NEWrow.points ELSE 0
        points_to_subtract ==
            IF NEWrow.status = "overdue" /\ OLDrow.status # "overdue"
            THEN OverduePenalty ELSE 0
        afterAdd ==
            IF points_to_add > 0
            THEN CreditPoints(profs, uid, NEWrow.assignee_id, points_to_add)
            ELSE profs
    IN  IF points_to_subtract > 0
        THEN DebitPoints(afterAdd, uid, NEWrow.assignee_id, points_to_subtract)
        ELSE afterAdd

\* the UPDATE with the trigger update_user_points not installed
UpdateTask_noTrigger(profs, tsks, uid, taskId, NEWrow) ==
    IF /\ taskId \in DOMAIN tsks
       /\ uid = SERVICE \/ (CanUpdateTask(profs, uid) /\ CanViewTask(profs, uid, tsks[taskId]))
    THEN [tasks |-> [tsks EXCEPT ![taskId] = NEWrow], profiles |-> profs, rows |-> 1]
    ELSE [tasks |-> tsks, profiles |-> profs, rows |-> 0]

\* UPDATE tasks SET <cols> WHERE id = taskId, as uid, with trigger
\* update_user_points; rows = number of rows the statement changed
UpdateTask(profs, tsks, uid, taskId, NEWrow) ==
    IF /\ taskId \in DOMAIN tsks
       /\ uid = SERVICE \/ (CanUpdateTask(profs, uid) /\ CanViewTask(profs, uid, tsks[taskId]))
    THEN [tasks |-> [tsks EXCEPT ![taskId] = NEWrow],
          profiles |-> calculate_user_points(profs, tsks[taskId], NEWrow, uid),
          rows |-> 1]
    ELSE [tasks |-> tsks, profiles |-> profs, rows |-> 0]

\* SELECT * FROM tasks WHERE assignee_id = uid, as uid
SelectAssignedTasks(profs, tsks, uid) ==
    LET ids == {t \in DOMAIN tsks :
                   CanViewTask(profs, uid, tsks[t]) /\ tsks[t].assignee_id = uid}
    IN  [t \in ids |-> tsks[t].status]

\* SELECT * FROM tasks WHERE created_by = uid, as uid
SelectCreatedTasks(profs, tsks, uid) ==
    LET ids == {t \in DOMAIN tsks :
                   CanViewTask(profs, uid, tsks[t]) /\ tsks[t].created_by = uid}
    IN  [t \in ids |-> tsks[t].status]

\* SELECT * FROM tasks, as uid
SelectAllTasks(profs, tsks, uid) ==
    LET ids == {t \in DOMAIN tsks : CanViewTask(profs, uid, tsks[t])}
    IN  [t \in ids |-> tsks[t].status]

\* SELECT * FROM profiles WHERE role = 'intern'
SelectInterns(profs) == {u \in DOMAIN profs : profs[u].role = "intern"}

\* the select policy of chat_messages admitting every caller
CanViewMessage_everyone(uid, row) == TRUE

\* policy "Users can view messages they sent or received"
CanViewMessage(uid, row) == row.sender_id = uid \/ row.receiver_id = uid

\* policy "Users can send messages"
CanSendMessage(uid, row) == row.sender_id = uid

\* an UPDATE policy for the receiver, which the migration does not define
CanUpdateMessage_receiver(uid, row) == uid = SERVICE \/ row.receiver_id = uid

\* chat_messages has row-level security enabled and no policy FOR UPDATE:
\* only a caller that bypasses row-level security updates a row
CanUpdateMessage(uid, row) == uid = SERVICE

\* SELECT * FROM chat_messages WHERE (sender_id = a AND receiver_id = b)
\* OR (sender_id = b AND receiver_id = a), as uid
SelectConversation(msgs, uid, a, b) ==
    {i \in DOMAIN msgs :
        /\ CanViewMessage(uid, msgs[i])
        /\ \/ msgs[i].sender_id = a /\ msgs[i].receiver_id = b
           \/ msgs[i].sender_id = b /\ msgs[i].receiver_id = a}

\* SELECT * FROM chat_messages, as uid
SelectAllMessages(msgs, uid) ==
    {i \in DOMAIN msgs : CanViewMessage(uid, msgs[i])}

\* UPDATE chat_messages SET read_at = now() WHERE receiver_id = r
\* AND sender_id = s AND read_at IS NULL, as uid
MarkRead(msgs, uid, r, s) ==
    [i \in DOMAIN msgs |->
        IF /\ CanUpdateMessage(uid, msgs[i])
           /\ msgs[i].receiver_id = r /\ msgs[i].sender_id = s
           /\ msgs[i].read_at = NULL
        THEN [msgs[i] EXCEPT !.read_at = Now]
        ELSE msgs[i]]

\* storage.foldername(name): the folder segments of an object name
FolderName(name) == name.folder

\* policy "Users can upload their own files" of storage.objects
CanInsertObject(uid, name) ==
    uid = SERVICE \/ (Len(FolderName(name)) >= 1 /\ FolderName(name)[1] = uid)

\* policy "Users can upload files" of file_uploads
CanInsertUpload(uid, row) == row.uploaded_by = uid

\* the select policy of file_uploads with the task's creator added
CanViewUpload_withCreator(profs, tsks, uid, row) ==
    \/ row.uploaded_by = uid
    \/ \E t \in DOMAIN tsks :
          /\ CanViewTask(profs, uid, tsks[t])
          /\ t = row.task_id
          /\ tsks[t].assignee_id = uid \/ tsks[t].created_by = uid

\* policy "Users can view their own uploads and task-related uploads"; its
\* subquery on tasks sees the rows the caller may select
CanViewUpload(profs, tsks, uid, row) ==
    \/ row.uploaded_by = uid
    \/ \E t \in DOMAIN tsks :
          /\ CanViewTask(profs, uid, tsks[t])
          /\ t = row.task_id
          /\ tsks[t].assignee_id = uid

\* policy "Users can view their own files and task-related files" of
\* storage.objects; its subquery on file_uploads and tasks sees the rows the
\* caller may select
CanViewObject(profs, tsks, uploads, uid, name) ==
    \/ Len(FolderName(name)) >= 1 /\ FolderName(name)[1] = uid
    \/ \E r \in DOMAIN uploads, t \in DOMAIN tsks :
          /\ CanViewUpload(profs, tsks, uid, uploads[r])
          /\ CanViewTask(profs, uid, tsks[t])
          /\ uploads[r].task_id = t
          /\ uploads[r].file_path = name
          /\ tsks[t].assignee_id = uid \/ tsks[t].created_by = uid

\* SELECT * FROM file_uploads, as uid
SelectUploads(profs, tsks, uploads, uid) ==
    {r \in DOMAIN uploads : CanViewUpload(profs, tsks, uid, uploads[r])}

\* ------------------------------------------------------------------ client
\* parseInt(e.target.value) || 10
parsePoints(entry) ==
    IF entry.kind = "empty" \/ entry.n = 0 THEN DefaultPoints ELSE entry.n

\* a switch whose default case is the admin dashboard
renderDashboard_adminDefault(role) ==
    CASE role = "intern" -> "InternDashboard"
      [] role = "employee" -> "EmployeeDashboard"
      [] OTHER -> "AdminDashboard"

\* Dashboard.renderDashboard
renderDashboard(role) ==
    CASE role = "employee" -> "EmployeeDashboard"
      [] role = "admin" -> "AdminDashboard"
      [] OTHER -> "InternDashboard"

\* what the browser of u shows: Dashboard's render while its route is shown
Rendered(u) ==
    IF route[u] # DashboardRoute THEN "Auth"
    ELSE IF loading[u] \/ user[u] = NULL \/ profile[u] = NULL THEN "Loading"
    ELSE renderDashboard(profile[u])

\* the points balance of a task row's assignee (0 where there is none)
AssigneeBalance(profs, row) ==
    IF row.assignee_id \in DOMAIN profs THEN profs[row.assignee_id].points ELSE 0

\* outcome records: what the step did, and the assignee's balance before it
NoOutcome(op, u) ==
    [op |-> op, actor |-> u, task |-> 0, from |-> NULL, to |-> NULL,
     rows |-> 0, error |-> NULL, toast |-> NULL, balance |-> 0]

Idle == NoOutcome("idle", NULL)

\* the chat before anything was sent or selected
NoChat ==
    /\ chat_messages = <<>>
    /\ selectedUser = [u \in Users |-> ""]
    /\ messages = [u \in Users |-> {}]
    /\ fetching = {}
    /\ observed = [actor |-> NULL, ids |-> {}]
    /\ marked = [late |-> {}, rows |-> {}]

\* nothing uploaded, nothing selected
NoUploads ==
    /\ file_uploads = <<>>
    /\ objects = {}
    /\ files = <<>>
    /\ downloaded = [actor |-> NULL, rows |-> {}, asked |-> NoObject, blobs |-> {}]

\* no pair of status changes compared yet
NotReordered == [tasks |-> <<>>, profiles |-> <<>>, done |-> FALSE]

\* one row per profile; a browser whose Dashboard holds a profile has run
\* its auth callback, any other is still loading; no callback under way
AuthSettled ==
    /\ profileRows = [u \in ChatUsers |-> IF u \in DOMAIN profiles THEN 1 ELSE 0]
    /\ callbacks = EmptyBag
    /\ loading = [u \in Users |-> profile[u] = NULL]
    /\ user = [u \in Users |-> IF profile[u] = NULL THEN NULL ELSE u]
    /\ route = [u \in Users |-> DashboardRoute]

\* -------------------------------------------------------------------- Init
Init ==
    /\ profiles = <<>>
    /\ tasks = <<>>
    /\ profile = [u \in Users |-> NULL]
    /\ tasksView = [u \in Users |-> <<>>]
    /\ inflight = EmptyBag
    /\ selfUpdates = 0
    /\ last = Idle
    /\ NoChat
    /\ NoUploads
    /\ reordered = NotReordered
    /\ AuthSettled

\* ----------------------------------------------------------------- actions
\* user_metadata?.role || 'intern'
InsertedRole(u) == IF MetadataRole[u] = NULL THEN "intern" ELSE MetadataRole[u]

\* INSERT INTO profiles (user_id, role, ...) VALUES (u, role, ...), as uid
ProfileInsertAdmitted(uid, u, role) ==
    /\ CanInsertProfile(uid, u)
    /\ RoleCheck(role)
    /\ UniqueUserId(profileRows, u)

\* the row of u added to the table, points at its default 0
WithProfile(u, role) ==
    [v \in DOMAIN profiles \cup {u} |->
        IF v = u THEN [role |-> role, points |-> 0] ELSE profiles[v]]

\* Dashboard: onAuthStateChange callback with a session of user u, run
\* with no other request between its select and its insert
onAuthStateChange(u) ==
    /\ callbacks = EmptyBag
    /\ route[u] = DashboardRoute
    /\ user' = [user EXCEPT ![u] = u]
    /\ loading' = [loading EXCEPT ![u] = FALSE]
    /\ IF HasProfile(profiles, u)
       THEN /\ profile' = [profile EXCEPT ![u] = profiles[u].role]
            /\ UNCHANGED <<profiles, profileRows>>
            /\ last' = Idle
       ELSE IF ProfileInsertAdmitted(u, u, InsertedRole(u))
            THEN /\ profiles' = WithProfile(u, InsertedRole(u))
                 /\ profileRows' = [profileRows EXCEPT ![u] = @ + 1]
                 /\ profile' = [profile EXCEPT ![u] = InsertedRole(u)]
                 /\ last' = Idle
            ELSE /\ UNCHANGED <<profiles, profileRows, profile>>
                 /\ last' = [NoOutcome("onAuthStateChange", u) EXCEPT
                                !.error = "ConstraintViolation",
                                !.toast = "Profile Error"]
    /\ UNCHANGED <<tasks, tasksView, inflight, selfUpdates>>
    /\ UNCHANGED <<chatVars, uploadVars, reordered, callbacks, route>>

\* an UPDATE of the caller's own profiles row, admitted by the policy
\* "Users can update their own profile", which restricts no column
ProfileSelfUpdateRole(u, role) ==
    /\ selfUpdates < MaxSelfUpdates
    /\ HasProfile(profiles, u)
    /\ CanUpdateProfile(u, u)
    /\ RoleCheck(role)
    /\ profiles' = [profiles EXCEPT ![u].role = role]
    /\ selfUpdates' = selfUpdates + 1
    /\ last' = Idle
    /\ UNCHANGED <<tasks, profile, tasksView, inflight>>
    /\ UNCHANGED <<chatVars, uploadVars, reordered, authVars>>

ProfileSelfUpdatePoints(u, pts) ==
    /\ selfUpdates < MaxSelfUpdates
    /\ HasProfile(profiles, u)
    /\ CanUpdateProfile(u, u)
    /\ profiles' = [profiles EXCEPT ![u].points = pts]
    /\ selfUpdates' = selfUpdates + 1
    /\ last' = Idle
    /\ UNCHANGED <<tasks, profile, tasksView, inflight>>
    /\ UNCHANGED <<chatVars, uploadVars, reordered, authVars>>

\* EmployeeDashboard.createTask with the form holding title, the points
\* entry and the selected assignee.  The assignee options are the rows of
\* fetchData's select of the interns; an option whose role changed since
\* that select is reached here by changing the role after the insert.
createTask(u, title, entry, assignee) ==
    /\ Rendered(u) = "EmployeeDashboard"
    /\ assignee \in SelectInterns(profiles) \cup {NULL}
    /\ Len(tasks) < MaxTasks
    /\ IF title = ""
       THEN /\ UNCHANGED tasks
            /\ last' = [NoOutcome("createTask", u) EXCEPT
                           !.error = "TitleRequired", !.toast = "Error"]
       ELSE IF ~CanCreateTask(profiles, u)
       THEN /\ UNCHANGED tasks
            /\ last' = [NoOutcome("createTask", u) EXCEPT
                           !.error = "Forbidden", !.toast = "Error"]
       ELSE /\ tasks' = Append(tasks,
                  [status |-> "pending", points |-> parsePoints(entry),
                   assignee_id |-> assignee, created_by |-> u,
                   completed_at |-> NULL])
            /\ last' = [NoOutcome("createTask", u) EXCEPT
                           !.task = Len(tasks) + 1, !.rows = 1,
                           !.toast = "Success"]
    /\ UNCHANGED <<profiles, profile, tasksView, inflight, selfUpdates>>
    /\ UNCHANGED <<chatVars, uploadVars, reordered, authVars>>

\* InternDashboard.fetchTasks (on mount)
fetchTasks(u) ==
    /\ Rendered(u) = "InternDashboard"
    /\ tasksView' = [tasksView EXCEPT ![u] = SelectAssignedTasks(profiles, tasks, u)]
    /\ last' = Idle
    /\ UNCHANGED <<profiles, tasks, profile, inflight, selfUpdates>>
    /\ UNCHANGED <<chatVars, uploadVars, reordered, authVars>>

\* the status the button shown for a task of the list asks for
ButtonStatus(shown) ==
    CASE shown = "pending" -> "in_progress"
      [] shown = "in_progress" -> "completed"
      [] OTHER -> NULL

\* InternDashboard: Start / Complete clicked for task t; updateTaskStatus
\* sends its UPDATE
updateTaskStatus_send(u, t) ==
    /\ Rendered(u) = "InternDashboard"
    /\ t \in DOMAIN tasksView[u]
    /\ ButtonStatus(tasksView[u][t]) # NULL
    /\ BagCardinality(inflight) < MaxInFlight
    /\ inflight' = inflight (+) SetToBag({[actor |-> u, task |-> t,
                                           status |-> ButtonStatus(tasksView[u][t])]})
    /\ last' = [NoOutcome("updateTaskStatus_send", u) EXCEPT
                   !.task = t, !.to = ButtonStatus(tasksView[u][t])]
    /\ UNCHANGED <<profiles, tasks, profile, tasksView, selfUpdates>>
    /\ UNCHANGED <<chatVars, uploadVars, reordered, authVars>>

\* the write clearing no completed_at
StatusWrite_keepsCompletedAt(row, status) ==
    [row EXCEPT !.status = status,
                !.completed_at = IF status = "completed" THEN Now ELSE @]

\* the write putting the column default back into points
StatusWrite_resetsPoints(row, status) ==
    [row EXCEPT !.status = status, !.points = DefaultPoints,
                !.completed_at = IF status = "completed" THEN Now ELSE NULL]

\* the row updateTaskStatus writes over the stored one
StatusWrite(row, status) ==
    [row EXCEPT !.status = status,
                !.completed_at = IF status = "completed" THEN Now ELSE NULL]

\* the database runs the UPDATE of request r; updateTaskStatus resumes
\* with no error, refreshes the list and shows the success toast
updateTaskStatus_done(r) ==
    /\ BagIn(r, inflight)
    /\ LET res == UpdateTask(profiles, tasks, r.actor, r.task,
                             StatusWrite(tasks[r.task], r.status))
       IN  /\ \A u \in DOMAIN profiles : profiles[u].points <= MaxBalance
           /\ tasks' = res.tasks
           /\ profiles' = res.profiles
           /\ tasksView' = [tasksView EXCEPT ![r.actor] =
                               SelectAssignedTasks(res.profiles, res.tasks, r.actor)]
           /\ last' = [op |-> "updateTaskStatus", actor |-> r.actor,
                       task |-> r.task, from |-> tasks[r.task].status,
                       to |-> r.status, rows |-> res.rows, error |-> NULL,
                       toast |-> "Success",
                       balance |-> AssigneeBalance(profiles, tasks[r.task])]
    /\ inflight' = inflight (-) SetToBag({r})
    /\ UNCHANGED <<profile, selfUpdates>>
    /\ UNCHANGED <<chatVars, uploadVars, reordered, authVars>>

\* the time-based process of the deployment marks a pending or in-progress
\* task overdue
SystemMarkOverdue(t) ==
    /\ t \in DOMAIN tasks
    /\ tasks[t].status \in {"pending", "in_progress"}
    /\ LET res == UpdateTask(profiles, tasks, SERVICE, t,
                             [tasks[t] EXCEPT !.status = "overdue"])
       IN  /\ tasks' = res.tasks
           /\ profiles' = res.profiles
           /\ last' = [NoOutcome("SystemMarkOverdue", SERVICE) EXCEPT
                          !.task = t, !.from = tasks[t].status,
                          !.to = "overdue", !.rows = res.rows,
                          !.balance = AssigneeBalance(profiles, tasks[t])]
    /\ UNCHANGED <<profile, tasksView, inflight, selfUpdates>>
    /\ UNCHANGED <<chatVars, uploadVars, reordered, authVars>>

Next ==
    \/ \E u \in Users : onAuthStateChange(u)
    \/ \E u \in Users, r \in SelfRoles : ProfileSelfUpdateRole(u, r)
    \/ \E u \in Users, p \in SelfPoints : ProfileSelfUpdatePoints(u, p)
    \/ \E u \in Users, ti \in Titles, e \in PointsEntries, a \in Users \cup {NULL} :
          createTask(u, ti, e, a)
    \/ \E u \in Users : fetchTasks(u)
    \/ \E u \in Users, t \in TaskIds : updateTaskStatus_send(u, t)
    \/ \E r \in BagToSet(inflight) : updateTaskStatus_done(r)
    \/ \E t \in TaskIds : SystemMarkOverdue(t)

Spec == Init /\ [][Next]_vars

\* ------------------------------------------------------- reading the tasks
\* The three dashboards read the tasks table on mount.  The databases the
\* reads run against: every user holds a profile of some role and a session
\* rendered from some (possibly older) role, and the tasks carry any
\* assignee and creator.
TaskRows ==
    [status : {"pending"}, points : {DefaultPoints},
     assignee_id : Users \cup {NULL}, created_by : Users,
     completed_at : {NULL}]

InitRead ==
    /\ profiles \in [Users -> [role : Roles, points : {0}]]
    /\ tasks \in UNION {[1..n -> TaskRows] : n \in 1..MaxTasks}
    /\ profile \in [Users -> Roles]
    /\ tasksView = [u \in Users |-> <<>>]
    /\ inflight = EmptyBag
    /\ selfUpdates = 0
    /\ last = Idle
    /\ NoChat
    /\ NoUploads
    /\ reordered = NotReordered
    /\ AuthSettled

\* AdminDashboard.fetchData: the tasks it puts into its list
AdminDashboard_fetchData(u) ==
    /\ Rendered(u) = "AdminDashboard"
    /\ tasksView' = [tasksView EXCEPT ![u] = SelectAllTasks(profiles, tasks, u)]
    /\ last' = NoOutcome("AdminDashboard_fetchData", u)
    /\ UNCHANGED <<profiles, tasks, profile, inflight, selfUpdates>>
    /\ UNCHANGED <<chatVars, uploadVars, reordered, authVars>>

\* EmployeeDashboard.fetchData: the tasks it puts into its list
EmployeeDashboard_fetchData(u) ==
    /\ Rendered(u) = "EmployeeDashboard"
    /\ tasksView' = [tasksView EXCEPT ![u] = SelectCreatedTasks(profiles, tasks, u)]
    /\ last' = NoOutcome("EmployeeDashboard_fetchData", u)
    /\ UNCHANGED <<profiles, tasks, profile, inflight, selfUpdates>>
    /\ UNCHANGED <<chatVars, uploadVars, reordered, authVars>>

NextRead ==
    \/ \E u \in Users : AdminDashboard_fetchData(u)
    \/ \E u \in Users : EmployeeDashboard_fetchData(u)
    \/ \E u \in Users : fetchTasks(u)

SpecRead == InitRead /\ [][NextRead]_vars

\* ------------------------------------------------------------------ upload
\* FileUpload of signed-in users; userId is the session's user.
InitUpload ==
    /\ profiles = [u \in Users |-> [role |-> "intern", points |-> 0]]
    /\ tasks = <<>>
    /\ profile = [u \in Users |-> "intern"]
    /\ tasksView = [u \in Users |-> <<>>]
    /\ inflight = EmptyBag
    /\ selfUpdates = 0
    /\ last = Idle
    /\ NoChat
    /\ NoUploads
    /\ reordered = NotReordered
    /\ AuthSettled

\* String.prototype.startsWith, endsWith, includes on sequences of pieces
StartsWith(str, prefix) ==
    Len(prefix) <= Len(str) /\ SubSeq(str, 1, Len(prefix)) = prefix

EndsWith(str, suffix) ==
    /\ Len(suffix) <= Len(str)
    /\ SubSeq(str, Len(str) - Len(suffix) + 1, Len(str)) = suffix

Includes(str, piece) == \E i \in DOMAIN str : str[i] = piece

\* type.replace('*', '')
RemoveStar(type) ==
    IF Includes(type, "*")
    THEN LET i == CHOOSE j \in DOMAIN type :
                     type[j] = "*" /\ \A k \in 1..(j - 1) : type[k] # "*"
         IN  SubSeq(type, 1, i - 1) \o SubSeq(type, i + 1, Len(type))
    ELSE type

allowedTypes ==
    << <<"image", "/", "*">>, <<"application", "/", "pdf">>,
       <<"text", "/", "*">>, <<".", "doc">>, <<".", "docx">> >>

\* allowedTypes.some(type => type.includes('*')
\*     ? file.type.startsWith(type.replace('*', ''))
\*     : file.name.endsWith(type))
isAllowed(file) ==
    \E i \in DOMAIN allowedTypes :
        IF Includes(allowedTypes[i], "*")
        THEN StartsWith(file.type, RemoveStar(allowedTypes[i]))
        ELSE EndsWith(file.name, allowedTypes[i])

\* the size test with no ceiling
SizeAllowed_anySize(size) == TRUE

\* the negation of `file.size > 5 * 1024 * 1024`
SizeAllowed(size) == ~(size > MaxFileSize)

\* file.name.split('.').pop()
fileExt(name) ==
    LET parts == SelectSeq(name, LAMBDA piece : piece # ".")
    IN  IF Len(parts) = 0 THEN "" ELSE parts[Len(parts)]

SizeError == "File size must be less than 5MB"
TypeError == "File type not allowed. Please upload images, PDFs, or documents."
PolicyError == "new row violates row-level security policy"

\* handleFileSelect with one file f, and uploadFiles up to the request of
\* its blob write (or to its catch)
handleFileSelect(u, f) ==
    /\ Len(files) < MaxUploads
    /\ LET id == Len(files) + 1
           entry == [user |-> u, file |-> f, status |-> "uploading",
                     error |-> NULL, pc |-> "blob", path |-> NoObject]
       IN  files' = Append(files,
             IF ~SizeAllowed(f.size)
             THEN [entry EXCEPT !.status = "error", !.error = SizeError,
                                !.pc = "done"]
             ELSE IF ~isAllowed(f)
             THEN [entry EXCEPT !.status = "error", !.error = TypeError,
                                !.pc = "done"]
             ELSE [entry EXCEPT !.path =
                      [folder |-> <<"uploads">>,
                       file |-> [uuid |-> id, ext |-> fileExt(f.name)]]])
    /\ UNCHANGED <<file_uploads, objects, downloaded>>
    /\ UNCHANGED <<taskVars, chatVars, reordered, authVars>>

\* uploadFiles going on to the insert of the record whatever the blob
\* write returned
uploadFiles_resume_ignoresUploadError(i) ==
    /\ i \in DOMAIN files
    /\ files[i].pc \in {"blob", "record"}
    /\ LET e == files[i]
           row == [original_name |-> e.file.name, file_path |-> e.path,
                   file_size |-> e.file.size, mime_type |-> e.file.type,
                   task_id |-> NoTask, uploaded_by |-> e.user]
       IN  IF e.pc = "blob"
           THEN IF CanInsertObject(e.user, e.path) /\ e.path \notin objects
                THEN /\ objects' = objects \cup {e.path}
                     /\ files' = [files EXCEPT ![i].pc = "record"]
                     /\ UNCHANGED file_uploads
                ELSE /\ files' = [files EXCEPT ![i].pc = "record"]
                     /\ UNCHANGED <<objects, file_uploads>>
           ELSE IF CanInsertUpload(e.user, row)
                THEN /\ file_uploads' = Append(file_uploads, row)
                     /\ files' = [files EXCEPT ![i].status = "success",
                                                ![i].pc = "done"]
                     /\ UNCHANGED objects
                ELSE /\ files' = [files EXCEPT ![i].status = "error",
                                                ![i].error = PolicyError,
                                                ![i].pc = "done"]
                     /\ UNCHANGED <<objects, file_uploads>>
    /\ UNCHANGED downloaded
    /\ UNCHANGED <<taskVars, chatVars, reordered, authVars>>

\* uploadFiles resumes for entry i: after the blob write, where it throws
\* the storage error or sends the insert of the record; after the insert
uploadFiles_resume(i) ==
    /\ i \in DOMAIN files
    /\ files[i].pc \in {"blob", "record"}
    /\ LET e == files[i]
           row == [original_name |-> e.file.name, file_path |-> e.path,
                   file_size |-> e.file.size, mime_type |-> e.file.type,
                   task_id |-> NoTask, uploaded_by |-> e.user]
       IN  IF e.pc = "blob"
           THEN IF CanInsertObject(e.user, e.path) /\ e.path \notin objects
                THEN /\ objects' = objects \cup {e.path}
                     /\ files' = [files EXCEPT ![i].pc = "record"]
                     /\ UNCHANGED file_uploads
                ELSE /\ files' = [files EXCEPT ![i].status = "error",
                                                ![i].error = PolicyError,
                                                ![i].pc = "done"]
                     /\ UNCHANGED <<objects, file_uploads>>
           ELSE IF CanInsertUpload(e.user, row)
                THEN /\ file_uploads' = Append(file_uploads, row)
                     /\ files' = [files EXCEPT ![i].status = "success",
                                                ![i].pc = "done"]
                     /\ UNCHANGED objects
                ELSE /\ files' = [files EXCEPT ![i].status = "error",
                                                ![i].error = PolicyError,
                                                ![i].pc = "done"]
                     /\ UNCHANGED <<objects, file_uploads>>
    /\ UNCHANGED downloaded
    /\ UNCHANGED <<taskVars, chatVars, reordered, authVars>>

NextUpload ==
    \/ \E u \in Users, f \in Files : handleFileSelect(u, f)
    \/ \E i \in 1..MaxUploads : uploadFiles_resume(i)

SpecUpload == InitUpload /\ [][NextUpload]_vars

\* --------------------------------------------- reading uploads and blobs
\* Requests sent through the data and storage APIs by signed-in users: an
\* intern and an employee, over tasks of any assignee and creator.
ObjectNames ==
    {[folder |-> <<d>>, file |-> [uuid |-> 0, ext |-> "txt"]] :
        d \in Users \cup {"uploads"}}

InitFiles ==
    /\ profiles = [u \in Users |->
                     [role |-> IF MetadataRole[u] = NULL THEN "intern"
                               ELSE MetadataRole[u],
                      points |-> 0]]
    /\ tasks \in UNION {[1..n -> TaskRows] : n \in 1..MaxTasks}
    /\ profile = [u \in Users |-> profiles[u].role]
    /\ tasksView = [u \in Users |-> <<>>]
    /\ inflight = EmptyBag
    /\ selfUpdates = 0
    /\ last = Idle
    /\ NoChat
    /\ NoUploads
    /\ reordered = NotReordered
    /\ AuthSettled

\* storage upload of a blob under `name`, as u
PutObject(u, name) ==
    /\ name \notin objects
    /\ objects' = IF CanInsertObject(u, name) THEN objects \cup {name} ELSE objects
    /\ downloaded' = [actor |-> u, rows |-> {}, asked |-> NoObject, blobs |-> {}]
    /\ UNCHANGED <<file_uploads, files>>
    /\ UNCHANGED <<taskVars, chatVars, reordered, authVars>>

\* INSERT INTO file_uploads of a record for an existing blob, as u
InsertUpload(u, uploaded_by, task_id, name) ==
    /\ Len(file_uploads) < MaxRecords
    /\ name \in objects
    /\ task_id \in DOMAIN tasks \cup {NoTask}
    /\ LET row == [original_name |-> <<"notes", ".", "txt">>, file_path |-> name,
                   file_size |-> 1024, mime_type |-> <<"text", "/", "plain">>,
                   task_id |-> task_id, uploaded_by |-> uploaded_by]
       IN  file_uploads' = IF CanInsertUpload(u, row)
                           THEN Append(file_uploads, row) ELSE file_uploads
    /\ downloaded' = [actor |-> u, rows |-> {}, asked |-> NoObject, blobs |-> {}]
    /\ UNCHANGED <<objects, files>>
    /\ UNCHANGED <<taskVars, chatVars, reordered, authVars>>

\* SELECT * FROM file_uploads, as u
ReadUploads(u) ==
    /\ downloaded' = [actor |-> u,
                      rows |-> SelectUploads(profiles, tasks, file_uploads, u),
                      asked |-> NoObject, blobs |-> {}]
    /\ UNCHANGED <<file_uploads, objects, files>>
    /\ UNCHANGED <<taskVars, chatVars, reordered, authVars>>

\* storage download of the blob `name`, as u
ReadObject(u, name) ==
    /\ name \in objects
    /\ downloaded' = [actor |-> u, rows |-> {}, asked |-> name,
                      blobs |-> IF CanViewObject(profiles, tasks, file_uploads, u, name)
                                THEN {name} ELSE {}]
    /\ UNCHANGED <<file_uploads, objects, files>>
    /\ UNCHANGED <<taskVars, chatVars, reordered, authVars>>

NextFiles ==
    \/ \E u \in Users, n \in ObjectNames : PutObject(u, n)
    \/ \E u, by \in Users, t \in TaskIds \cup {NoTask}, n \in ObjectNames :
          InsertUpload(u, by, t, n)
    \/ \E u \in Users : ReadUploads(u)
    \/ \E u \in Users, n \in ObjectNames : ReadObject(u, n)

SpecFiles == InitFiles /\ [][NextFiles]_vars

\* ------------------------------------------- status changes on two tasks
\* Two tasks of staff assignees with any balances; one status change is
\* applied to each task, in both orders.
InitOrder ==
    /\ profiles \in [Users -> [role : {"employee"}, points : 0..MaxBalance]]
    /\ tasks \in [1..2 -> [status : {"pending", "in_progress"},
                            points : {DefaultPoints, 3},
                            assignee_id : Users, created_by : {"u2"},
                            completed_at : {NULL}]]
    /\ profile = [u \in Users |-> "intern"]
    /\ tasksView = [u \in Users |-> <<>>]
    /\ inflight = EmptyBag
    /\ selfUpdates = 0
    /\ last = Idle
    /\ NoChat
    /\ NoUploads
    /\ reordered = NotReordered
    /\ AuthSettled

\* one status change of task t: in_progress or completed written by the
\* assignee's updateTaskStatus, overdue by the time-based process
StatusChange(profs, tsks, t, status) ==
    IF status = "overdue"
    THEN UpdateTask(profs, tsks, SERVICE, t, [tsks[t] EXCEPT !.status = "overdue"])
    ELSE UpdateTask(profs, tsks, tsks[t].assignee_id, t, StatusWrite(tsks[t], status))

\* the change s1 of task 1 and the change s2 of task 2, run in this order
\* on the tables and in the other order on a copy
ApplyBothOrders(s1, s2) ==
    /\ ~reordered.done
    /\ s1 = "overdue" \/ s1 = ButtonStatus(tasks[1].status)
    /\ s2 = "overdue" \/ s2 = ButtonStatus(tasks[2].status)
    /\ LET first == StatusChange(profiles, tasks, 1, s1)
           both == StatusChange(first.profiles, first.tasks, 2, s2)
           firstSwapped == StatusChange(profiles, tasks, 2, s2)
           bothSwapped == StatusChange(firstSwapped.profiles, firstSwapped.tasks, 1, s1)
       IN  /\ tasks' = both.tasks
           /\ profiles' = both.profiles
           /\ reordered' = [tasks |-> bothSwapped.tasks,
                            profiles |-> bothSwapped.profiles, done |-> TRUE]
    /\ UNCHANGED <<profile, tasksView, inflight, selfUpdates, last>>
    /\ UNCHANGED <<chatVars, uploadVars, authVars>>

NextOrder ==
    \E s1, s2 \in {"in_progress", "completed", "overdue"} : ApplyBothOrders(s1, s2)

SpecOrder == InitOrder /\ [][NextOrder]_vars

\* -------------------------------------------------------------------- auth
\* the effect on [loading, user, navigate], run after a state change
NavigateEffect(u, isLoading, usr) ==
    IF ~isLoading /\ usr = NULL THEN AuthRoute ELSE route[u]

\* onAuthStateChange delivers an event to the Dashboard of u's browser,
\* with the session of u (s = u) or with none (s = NULL): setUser, then
\* the select of the profile is sent, or the state is cleared
onAuthStateChange_event(u, s) ==
    /\ route[u] = DashboardRoute
    /\ user' = [user EXCEPT ![u] = s]
    /\ IF s # NULL
       THEN /\ BagCardinality(callbacks) < MaxCallbacks
            /\ callbacks' = callbacks (+) SetToBag({[user |-> u, pc |-> "select"]})
            /\ UNCHANGED <<profile, loading>>
       ELSE /\ profile' = [profile EXCEPT ![u] = NULL]
            /\ loading' = [loading EXCEPT ![u] = FALSE]
            /\ UNCHANGED callbacks
    /\ route' = [route EXCEPT ![u] = NavigateEffect(u, loading'[u], s)]
    /\ last' = Idle
    /\ UNCHANGED <<profiles, profileRows, tasks, tasksView, inflight, selfUpdates>>
    /\ UNCHANGED <<chatVars, uploadVars, reordered>>

\* the select of a callback returns: an existing profile is stored and the
\* callback ends, otherwise the insert is sent; a Dashboard that was
\* replaced by the auth page keeps no state
onAuthStateChange_select(c) ==
    /\ BagIn(c, callbacks) /\ c.pc = "select"
    /\ IF HasProfile(profiles, c.user)
       THEN /\ callbacks' = callbacks (-) SetToBag({c})
            /\ IF route[c.user] = DashboardRoute
               THEN /\ profile' = [profile EXCEPT ![c.user] = profiles[c.user].role]
                    /\ loading' = [loading EXCEPT ![c.user] = FALSE]
               ELSE UNCHANGED <<profile, loading>>
       ELSE /\ callbacks' = (callbacks (-) SetToBag({c}))
                               (+) SetToBag({[c EXCEPT !.pc = "insert"]})
            /\ UNCHANGED <<profile, loading>>
    /\ route' = [route EXCEPT
                    ![c.user] = NavigateEffect(c.user, loading'[c.user], user[c.user])]
    /\ last' = Idle
    /\ UNCHANGED <<profiles, profileRows, user, tasks, tasksView, inflight, selfUpdates>>
    /\ UNCHANGED <<chatVars, uploadVars, reordered>>

\* the insert of a callback runs, as the identity the browser holds a
\* session of at that time, and the callback ends
onAuthStateChange_insert(c) ==
    /\ BagIn(c, callbacks) /\ c.pc = "insert"
    /\ callbacks' = callbacks (-) SetToBag({c})
    /\ LET u == c.user
           mounted == route[u] = DashboardRoute
       IN  IF ProfileInsertAdmitted(user[u], u, InsertedRole(u))
           THEN /\ profiles' = WithProfile(u, InsertedRole(u))
                /\ profileRows' = [profileRows EXCEPT ![u] = @ + 1]
                /\ profile' = IF mounted
                              THEN [profile EXCEPT ![u] = InsertedRole(u)]
                              ELSE profile
                /\ loading' = IF mounted THEN [loading EXCEPT ![u] = FALSE]
                              ELSE loading
                /\ last' = Idle
           ELSE /\ UNCHANGED <<profiles, profileRows, profile>>
                /\ loading' = IF mounted THEN [loading EXCEPT ![u] = FALSE]
                              ELSE loading
                /\ last' = [NoOutcome("onAuthStateChange", u) EXCEPT
                               !.error = "ConstraintViolation",
                               !.toast = "Profile Error"]
    /\ route' = [route EXCEPT
                    ![c.user] = NavigateEffect(c.user, loading'[c.user], user[c.user])]
    /\ UNCHANGED <<user, tasks, tasksView, inflight, selfUpdates>>
    /\ UNCHANGED <<chatVars, uploadVars, reordered>>

\* supabase.auth.getSession().then, reached before the first event: setUser
\* with the session the browser holds
getSession_then(u) ==
    /\ route[u] = DashboardRoute
    /\ loading[u] /\ user[u] = NULL
    /\ user' = [user EXCEPT ![u] = u]
    /\ route' = [route EXCEPT ![u] = NavigateEffect(u, loading[u], user'[u])]
    /\ last' = Idle
    /\ UNCHANGED <<profiles, profileRows, profile, loading, callbacks>>
    /\ UNCHANGED <<tasks, tasksView, inflight, selfUpdates>>
    /\ UNCHANGED <<chatVars, uploadVars, reordered>>

NextAuth ==
    \/ \E u \in Users : \E s \in {u, NULL} : onAuthStateChange_event(u, s)
    \/ \E c \in BagToSet(callbacks) : onAuthStateChange_select(c)
    \/ \E c \in BagToSet(callbacks) : onAuthStateChange_insert(c)
    \/ \E u \in Users : getSession_then(u)

SpecAuth == Init /\ [][NextAuth]_vars

\* -------------------------------------------------------------------- chat
\* Three identities hold a profile; the sessions of Users show ChatSystem,
\* the third identity reaches the tables through the data API.
InitChat ==
    /\ profiles = [u \in ChatUsers |-> [role |-> "intern", points |-> 0]]
    /\ tasks = <<>>
    /\ profile = [u \in ChatUsers |-> "intern"]
    /\ tasksView = [u \in Users |-> <<>>]
    /\ inflight = EmptyBag
    /\ selfUpdates = 0
    /\ last = Idle
    /\ NoChat
    /\ NoUploads
    /\ reordered = NotReordered
    /\ AuthSettled

\* newMessage.trim()
Trim(c) == IF c = " " THEN "" ELSE c

\* a call of fetchMessages by u's component, which captured `peer` as
\* selectedUser: the select is the first request it sends, `data` is what
\* it returned
StartFetch(u, peer) ==
    fetching \cup {[user |-> u, peer |-> peer, pc |-> "select", data |-> {}]}

\* the Select's onValueChange (the options are the other profiles), and the
\* effect on [selectedUser], which calls fetchMessages
setSelectedUser(u, v) ==
    /\ v \in DOMAIN profiles \ {u}
    /\ v # selectedUser[u]
    /\ Cardinality(StartFetch(u, v)) <= MaxFetches
    /\ selectedUser' = [selectedUser EXCEPT ![u] = v]
    /\ fetching' = StartFetch(u, v)
    /\ UNCHANGED <<chat_messages, messages, observed, marked>>
    /\ UNCHANGED <<taskVars, uploadVars, reordered, authVars>>

\* the 3-second interval of the effect calls fetchMessages
pollMessages(u) ==
    /\ selectedUser[u] # ""
    /\ Cardinality(StartFetch(u, selectedUser[u])) <= MaxFetches
    /\ fetching' = StartFetch(u, selectedUser[u])
    /\ UNCHANGED <<chat_messages, selectedUser, messages, observed, marked>>
    /\ UNCHANGED <<taskVars, uploadVars, reordered, authVars>>

\* sendMessage with the input holding c: the insert, then fetchMessages
sendMessage(u, c) ==
    /\ Len(chat_messages) < MaxMessages
    /\ Cardinality(StartFetch(u, selectedUser[u])) <= MaxFetches
    /\ LET row == [content |-> c, sender_id |-> u,
                   receiver_id |-> selectedUser[u], read_at |-> NULL]
       IN  IF Trim(c) = "" \/ selectedUser[u] = ""
           THEN UNCHANGED <<chat_messages, fetching>>
           ELSE IF CanSendMessage(u, row) /\ HasProfile(profiles, row.receiver_id)
           THEN /\ chat_messages' = Append(chat_messages, row)
                /\ fetching' = StartFetch(u, selectedUser[u])
           ELSE UNCHANGED <<chat_messages, fetching>>
    /\ UNCHANGED <<selectedUser, messages, observed, marked>>
    /\ UNCHANGED <<taskVars, uploadVars, reordered, authVars>>

\* fetchMessages: the select returns and setMessages stores its rows; the
\* mark-as-read update is sent
fetchMessages_select(f) ==
    /\ f \in fetching /\ f.pc = "select"
    /\ LET data == SelectConversation(chat_messages, f.user, f.user, f.peer)
       IN  /\ messages' = [messages EXCEPT ![f.user] = data]
           /\ fetching' = (fetching \ {f})
                             \cup {[f EXCEPT !.pc = "update", !.data = data]}
    /\ UNCHANGED <<chat_messages, selectedUser, observed, marked>>
    /\ UNCHANGED <<taskVars, uploadVars, reordered, authVars>>

\* fetchMessages: the database runs the mark-as-read update
fetchMessages_markRead(f) ==
    /\ f \in fetching /\ f.pc = "update"
    /\ chat_messages' = MarkRead(chat_messages, f.user, f.user, f.peer)
    /\ marked' =
          [late |-> {i \in DOMAIN chat_messages \ f.data :
                        /\ chat_messages[i].receiver_id = f.user
                        /\ chat_messages[i].sender_id = f.peer
                        /\ chat_messages[i].read_at = NULL},
           rows |-> {i \in DOMAIN chat_messages :
                        chat_messages'[i] # chat_messages[i]}]
    /\ fetching' = fetching \ {f}
    /\ UNCHANGED <<selectedUser, messages, observed>>
    /\ UNCHANGED <<taskVars, uploadVars, reordered, authVars>>

\* a SELECT of chat_messages sent by u through the data API, with no filter
ReadMessages(u) ==
    /\ observed' = [actor |-> u, ids |-> SelectAllMessages(chat_messages, u)]
    /\ UNCHANGED <<chat_messages, selectedUser, messages, fetching, marked>>
    /\ UNCHANGED <<taskVars, uploadVars, reordered, authVars>>

NextChat ==
    \/ \E u \in Users, v \in ChatUsers : setSelectedUser(u, v)
    \/ \E u \in Users : pollMessages(u)
    \/ \E u \in Users, c \in Contents : sendMessage(u, c)
    \/ \E f \in fetching : fetchMessages_select(f)
    \/ \E f \in fetching : fetchMessages_markRead(f)

SpecChat == InitChat /\ [][NextChat]_vars

\* the reads of chat_messages: the sessions send, their components select
\* the conversation, every identity selects through the data API
NextInbox ==
    \/ \E u \in Users, v \in ChatUsers : setSelectedUser(u, v)
    \/ \E u \in Users, c \in Contents : sendMessage(u, c)
    \/ \E f \in fetching : fetchMessages_select(f)
    \/ \E u \in ChatUsers : ReadMessages(u)

SpecInbox == InitChat /\ [][NextInbox]_vars

TypeOK ==
    /\ DOMAIN profiles \subseteq Users
    /\ \A u \in DOMAIN profiles : profiles[u].role \in Roles /\ profiles[u].points \in Int
    /\ Len(tasks) <= MaxTasks
    /\ \A t \in DOMAIN tasks :
          /\ tasks[t].status \in Statuses
          /\ tasks[t].assignee_id \in Users \cup {NULL}
          /\ tasks[t].created_by \in Users
    /\ \A u \in Users : profile[u] \in Roles \cup {NULL}
    /\ BagCardinality(inflight) <= MaxInFlight
    /\ selfUpdates \in 0..MaxSelfUpdates

\* ------------------------------------------------------------------ claims
\* a step applied the UPDATE of an in-flight updateTaskStatus request r
Applied(r) == BagIn(r, inflight) /\ inflight' = inflight (-) SetToBag({r})

\* the assignee of task t, when it is a profile
Assignee(t) == tasks[t].assignee_id

Min(a, b) == IF a <= b THEN a ELSE b

\* C1: a transition of a task with points value P and a non-null assignee
\* from pending or in_progress to completed raises the assignee's balance by
\* exactly P, and a further request for that same transition, applied once
\* the task is completed, credits nothing more.
C1_CreditExactlyOnce ==
    [][\A t \in DOMAIN tasks :
          Assignee(t) \in DOMAIN profiles =>
            /\ (tasks[t].status \in {"pending", "in_progress"}
                  /\ tasks'[t].status = "completed")
               => profiles'[Assignee(t)].points
                    = profiles[Assignee(t)].points + tasks[t].points
            /\ (\E r \in BagToSet(inflight) :
                    /\ Applied(r)
                    /\ r.task = t /\ r.status = "completed"
                    /\ tasks[t].status = "completed")
               => profiles'[Assignee(t)].points = profiles[Assignee(t)].points
      ]_vars

\* C2: every profile's points balance is >= 0 in every reachable state.
C2_PointsNonNegative ==
    \A u \in DOMAIN profiles : profiles[u].points >= 0

\* C3: for every task, completed_at is non-null if and only if the status
\* is completed.
C3_CompletedAtIffCompleted ==
    \A t \in DOMAIN tasks :
        (tasks[t].completed_at # NULL) <=> (tasks[t].status = "completed")

\* a completion was just written: status completed, completed_at set
C3_Witness ==
    /\ last.op = "updateTaskStatus" /\ last.rows = 1
    /\ last.from = "in_progress" /\ last.to = "completed"
    /\ tasks[last.task].status = "completed"
    /\ tasks[last.task].completed_at = Now

\* C4: writing to a task the status it already has changes no profile's
\* points balance.
C4_SameStatusNoPoints ==
    [][\A r \in BagToSet(inflight) :
          (Applied(r) /\ r.status = tasks[r.task].status)
          => \A u \in DOMAIN profiles : profiles'[u].points = profiles[u].points
      ]_vars

\* completed was just written over completed for a task with a positive
\* points value and an assignee
C4_Witness ==
    /\ last.op = "updateTaskStatus" /\ last.rows = 1
    /\ last.from = "completed" /\ last.to = "completed"
    /\ tasks[last.task].assignee_id = last.actor
    /\ tasks[last.task].points > 0

\* C5: when a task with a non-null assignee goes from a non-overdue status
\* to overdue, the assignee's balance becomes the previous balance minus
\* min(5, previous balance).
C5_OverdueDebit ==
    [][\A t \in DOMAIN tasks :
          (/\ Assignee(t) \in DOMAIN profiles
           /\ tasks[t].status # "overdue"
           /\ tasks'[t].status = "overdue")
          => profiles'[Assignee(t)].points
               = profiles[Assignee(t)].points
                   - Min(OverduePenalty, profiles[Assignee(t)].points)
      ]_vars

\* a task of an assignee with a balance between 1 and 4 just became
\* overdue, and the balance is now 0
C5_Witness ==
    /\ last.op = "SystemMarkOverdue" /\ last.rows = 1
    /\ last.from # "overdue" /\ last.to = "overdue"
    /\ tasks[last.task].assignee_id \in DOMAIN profiles
    /\ last.balance \in 1..(OverduePenalty - 1)
    /\ profiles[tasks[last.task].assignee_id].points = 0

\* the status changes an actor may request: pending -> in_progress and
\* in_progress -> completed
AllowedTransition(from, to) ==
    \/ from = "pending" /\ to = "in_progress"
    \/ from = "in_progress" /\ to = "completed"

\* C6: a requested status change is accepted only when it is
\* pending -> in_progress or in_progress -> completed; any other requested
\* change leaves the stored status as it was.
C6_InvalidTransitionRejected ==
    (/\ last.op = "updateTaskStatus"
     /\ last.from # last.to
     /\ ~AllowedTransition(last.from, last.to))
    => tasks[last.task].status = last.from

\* C7: when an intern who is the assignee of a pending task requests
\* in_progress, the stored status afterwards is in_progress.
C7_InternAssigneeCanStart ==
    (/\ last.op = "updateTaskStatus"
     /\ last.from = "pending" /\ last.to = "in_progress"
     /\ tasks[last.task].assignee_id = last.actor
     /\ profiles[last.actor].role = "intern")
    => tasks[last.task].status = "in_progress"

\* C8: a task is added only by an actor whose role is employee or admin; a
\* create request of an actor whose role is intern is rejected with
\* Forbidden and adds no task.
C8_CreateOnlyByStaff ==
    [][/\ Len(tasks') > Len(tasks)
          => /\ last'.op = "createTask"
             /\ profiles[last'.actor].role \in {"employee", "admin"}
       /\ (/\ last'.op = "createTask"
           /\ last'.error # "TitleRequired"
           /\ profiles[last'.actor].role = "intern")
          => /\ last'.error = "Forbidden"
             /\ tasks' = tasks
      ]_vars

\* an intern's create request was just rejected
C8_Witness ==
    /\ last.op = "createTask"
    /\ last.error = "Forbidden"
    /\ last.rows = 0
    /\ profiles[last.actor].role = "intern"

\* the balance the ledger rules give the assignee of a task whose status
\* goes from `from` to `to`
LedgerBalance(balance, points, from, to) ==
    IF to = "completed" /\ from # "completed" /\ points > 0 THEN balance + points
    ELSE IF to = "overdue" /\ from # "overdue"
         THEN (IF balance > OverduePenalty THEN balance - OverduePenalty ELSE 0)
    ELSE balance

\* C9: the status write and its ledger effect happen in one step: a state
\* in which a status became completed or overdue shows the assignee's
\* adjusted balance, and a balance moves only in the step that writes such
\* a status (or by the owner's update of the profiles row).
C9_StatusAndLedgerAtomic ==
    [][/\ \A t \in DOMAIN tasks :
            (/\ Assignee(t) \in DOMAIN profiles
             /\ tasks'[t].status # tasks[t].status
             /\ tasks'[t].status \in {"completed", "overdue"})
            => profiles'[Assignee(t)].points
                 = LedgerBalance(profiles[Assignee(t)].points, tasks[t].points,
                                 tasks[t].status, tasks'[t].status)
       /\ \A u \in DOMAIN profiles :
            profiles'[u].points # profiles[u].points
            => \/ selfUpdates' = selfUpdates + 1
               \/ \E t \in DOMAIN tasks :
                     /\ Assignee(t) = u
                     /\ tasks'[t].status # tasks[t].status
                     /\ tasks'[t].status \in {"completed", "overdue"}
      ]_vars

\* a completion was just written and the assignee's balance rose with it
C9_Witness ==
    /\ last.op = "updateTaskStatus" /\ last.rows = 1
    /\ last.from # "completed" /\ last.to = "completed"
    /\ tasks[last.task].assignee_id \in DOMAIN profiles
    /\ tasks[last.task].points > 0
    /\ profiles[tasks[last.task].assignee_id].points
         = last.balance + tasks[last.task].points

\* C10: a status change whose new status is neither completed nor overdue
\* changes no profile's points balance.
C10_OtherTransitionsNoPoints ==
    [][(\E t \in DOMAIN tasks :
           /\ tasks'[t].status # tasks[t].status
           /\ tasks'[t].status \notin {"completed", "overdue"})
       => \A u \in DOMAIN profiles : profiles'[u].points = profiles[u].points
      ]_vars

\* a completed task of an assignee was just put back to in_progress
C10_Witness ==
    /\ last.op = "updateTaskStatus" /\ last.rows = 1
    /\ last.from = "completed" /\ last.to = "in_progress"
    /\ tasks[last.task].assignee_id \in DOMAIN profiles
    /\ tasks[last.task].points > 0

\* C11: when a task with no assignee changes status to completed or to
\* overdue, no profile's points balance changes.
C11_NoAssigneeNoLedgerEffect ==
    [][\A t \in DOMAIN tasks :
          (/\ tasks[t].assignee_id = NULL
           /\ tasks'[t].status # tasks[t].status
           /\ tasks'[t].status \in {"completed", "overdue"})
          => \A u \in DOMAIN profiles : profiles'[u].points = profiles[u].points
      ]_vars

\* an unassigned task just became overdue while its creator held a
\* non-zero balance
C11_Witness ==
    /\ last.op = "SystemMarkOverdue" /\ last.rows = 1
    /\ tasks[last.task].assignee_id = NULL
    /\ tasks[last.task].status = "overdue"
    /\ profiles[tasks[last.task].created_by].points # 0

\* C12: no status update changes a task's points value: after any step the
\* points of every stored task equal the value it had before, hence the
\* value it was created with.
C12_TaskPointsFixed ==
    [][\A t \in DOMAIN tasks : tasks'[t].points = tasks[t].points]_vars

\* a task created with the points value 3 was just completed and still
\* carries 3
C12_Witness ==
    /\ last.op = "updateTaskStatus" /\ last.rows = 1
    /\ last.to = "completed"
    /\ tasks[last.task].status = "completed"
    /\ tasks[last.task].points = 3

\* C13: the stored role of a profile never changes once the profile
\* exists.
C13_RoleImmutable ==
    [][\A u \in DOMAIN profiles : profiles'[u].role = profiles[u].role]_vars

\* C16: a read of the tasks table returns a row to an actor only if the
\* actor is the row's assignee, its creator, or holds the role employee or
\* admin; an intern who is neither never obtains the row.
C16_TaskReadPolicy ==
    [][\A u \in Users :
          tasksView'[u] # tasksView[u]
          => \A t \in DOMAIN tasksView'[u] :
                \/ tasks[t].assignee_id = u
                \/ tasks[t].created_by = u
                \/ profiles[u].role \in {"employee", "admin"}
      ]_vars

\* an intern whose session still shows the admin dashboard just read the
\* tasks and did not obtain a task of which it is neither assignee nor
\* creator
C16_Witness ==
    /\ last.op = "AdminDashboard_fetchData"
    /\ profiles[last.actor].role = "intern"
    /\ \E t \in DOMAIN tasks :
          /\ tasks[t].assignee_id # last.actor
          /\ tasks[t].created_by # last.actor
          /\ t \notin DOMAIN tasksView[last.actor]

\* C17: a read of chat_messages returns a message to an actor only if the
\* actor is its sender or its receiver: neither the list a component
\* shows nor the result of any select holds a message of two other
\* identities.
C17_MessageReadPolicy ==
    /\ \A i \in observed.ids :
          \/ chat_messages[i].sender_id = observed.actor
          \/ chat_messages[i].receiver_id = observed.actor
    /\ \A u \in Users : \A i \in messages[u] :
          \/ chat_messages[i].sender_id = u
          \/ chat_messages[i].receiver_id = u

\* a third identity selected every message it may see and obtained a later
\* message of its own, but not the earlier one of the two others
C17_Witness ==
    /\ observed.actor # NULL
    /\ \E i, j \in DOMAIN chat_messages :
          /\ i < j
          /\ j \in observed.ids
          /\ i \notin observed.ids
          /\ chat_messages[i].sender_id # observed.actor
          /\ chat_messages[i].receiver_id # observed.actor

\* C20: read_at is set by the fetch of the receiver and only once: when a
\* fetch of the receiver has run its mark-as-read update, the messages
\* sent to it by the selected user have a non-null read_at; a non-null
\* read_at never changes; no other field of a message changes.
C20_ReadAtSetOnceByReceiver ==
    [][/\ \A f \in fetching :
            (f.pc = "update" /\ fetching' = fetching \ {f})
            => \A i \in DOMAIN chat_messages :
                  (/\ chat_messages[i].receiver_id = f.user
                   /\ chat_messages[i].sender_id = f.peer)
                  => chat_messages'[i].read_at # NULL
       /\ \A i \in DOMAIN chat_messages :
            /\ chat_messages[i].read_at # NULL
               => chat_messages'[i].read_at = chat_messages[i].read_at
            /\ [chat_messages'[i] EXCEPT !.read_at = NULL]
                 = [chat_messages[i] EXCEPT !.read_at = NULL]
      ]_vars

\* C14: the blob write of a selected file is attempted only if the file's
\* size is at most 5 MiB; a larger file ends in the error state with the
\* size message, with no blob write and no record written for it.
C14_SizeCheckedBeforeBlobWrite ==
    \A i \in DOMAIN files :
        /\ files[i].pc \in {"blob", "record"} => files[i].file.size <= MaxFileSize
        /\ files[i].file.size > MaxFileSize
           => /\ files[i].status = "error"
              /\ files[i].error = SizeError
              /\ files[i].pc = "done"
              /\ files[i].path = NoObject
              /\ \A r \in DOMAIN file_uploads :
                    file_uploads[r].file_size <= MaxFileSize

\* a 6 MiB image was rejected, and the blob write of an image of exactly
\* 5 MiB is under way
C14_Witness ==
    \E i, j \in DOMAIN files :
        /\ files[i].file.size = 6 * 1024 * 1024
        /\ files[i].file.type = <<"image", "/", "png">>
        /\ files[i].error = SizeError
        /\ files[j].file.size = MaxFileSize
        /\ files[j].pc = "blob"

\* the allow-list as stated: images, PDF, plain text, Word documents
StatedAllowed(file) ==
    \/ StartsWith(file.type, <<"image", "/">>)
    \/ file.type = <<"application", "/", "pdf">>
    \/ StartsWith(file.type, <<"text", "/">>)
    \/ EndsWith(file.name, <<".", "doc">>)
    \/ EndsWith(file.name, <<".", "docx">>)

\* C15: a file within the size limit passes the type check exactly when
\* its MIME type is image/*, application/pdf or text/*, or its name ends
\* in .doc or .docx; every other file ends in the error state with the
\* type message and no blob write.
C15_TypeAllowList ==
    \A i \in DOMAIN files :
        files[i].file.size <= MaxFileSize
        => /\ StatedAllowed(files[i].file) <=> files[i].error # TypeError
           /\ ~StatedAllowed(files[i].file)
              => files[i].pc = "done" /\ files[i].path = NoObject

\* the actor uploaded record r or is the assignee of r's task
UploaderOrAssignee(u, r) ==
    \/ file_uploads[r].uploaded_by = u
    \/ /\ file_uploads[r].task_id \in DOMAIN tasks
       /\ tasks[file_uploads[r].task_id].assignee_id = u

C19_TaskChangesCommute ==
    reordered.done => reordered.tasks = tasks /\ reordered.profiles = profiles

\* C23: once a task is overdue, a later status update of that task changes
\* no profile's points balance.
C23_OverdueTerminalForPoints ==
    [][\A r \in BagToSet(inflight) :
          (Applied(r) /\ tasks[r.task].status = "overdue")
          => \A u \in DOMAIN profiles : profiles'[u].points = profiles[u].points
      ]_vars

\* C24: an updateTaskStatus request that the update policy denies (no row
\* changed) shows the caller an error and never the success toast.
C24_DeniedUpdateSurfaced ==
    (last.op = "updateTaskStatus" /\ last.rows = 0)
    => (last.error # NULL /\ last.toast # "Success")

\* C26: every stored task has a points value >= 1, whatever the points
\* field of the create-task form held.
C26_TaskPointsPositive ==
    \A t \in DOMAIN tasks : tasks[t].points >= 1

\* the sum of the positive points values of the tasks 1..n assigned to u
RECURSIVE AssignedPoints(_, _)
AssignedPoints(u, n) ==
    IF n = 0 THEN 0
    ELSE AssignedPoints(u, n - 1)
         + (IF tasks[n].assignee_id = u /\ tasks[n].points > 0
            THEN tasks[n].points ELSE 0)

\* C27: the points credited on account of a task never exceed its points
\* value in total.  A balance is at most what was credited to its profile
\* (debits lower it or floor it at 0, the owner's own update stores -1), so
\* the balance of a profile never exceeds the sum of the points values of
\* the tasks assigned to it.
C27_CreditAtMostTaskPoints ==
    \A u \in DOMAIN profiles :
        profiles[u].points <= AssignedPoints(u, Len(tasks))

\* C21: the record of a file is written only after the blob write of that
\* file succeeded; when the blob write fails the file's status becomes
\* error and no record is written for it.
C21_RecordOnlyAfterBlob ==
    [][/\ \A i \in DOMAIN files :
            (files[i].pc = "blob" /\ files'[i].pc # "blob")
            => \/ files'[i].pc = "record" /\ files[i].path \in objects'
               \/ /\ files'[i].pc = "done" /\ files'[i].status = "error"
                  /\ files[i].path \notin objects'
       /\ \A r \in DOMAIN file_uploads' : file_uploads'[r].file_path \in objects'
      ]_vars

\* the blob write of a valid file failed: the file is in the error state,
\* no blob and no record exist for it
C21_Witness ==
    \E i \in DOMAIN files :
        /\ files[i].pc = "done"
        /\ files[i].status = "error"
        /\ files[i].error = PolicyError
        /\ files[i].path \notin objects
        /\ \A r \in DOMAIN file_uploads : file_uploads[r].file_path # files[i].path

\* C25: every blob write of the upload operation uses a path whose first
\* folder segment is the uploader's identity, so the storage insert policy
\* admits the write of a valid file.
C25_PathNamespacedByUploader ==
    \A i \in DOMAIN files :
        files[i].path # NoObject
        => /\ FolderName(files[i].path)[1] = files[i].user
           /\ files[i].status # "error"

\* C28: whenever no fetch of a session is in flight, the list it displays
\* holds only messages exchanged between its user and the user it has
\* selected; a fetch started for an earlier selection never replaces the
\* list of the new selection.
C28_ListMatchesSelection ==
    \A u \in Users :
        {f \in fetching : f.user = u} = {}
        => \A i \in messages[u] :
              \/ /\ chat_messages[i].sender_id = u
                 /\ chat_messages[i].receiver_id = selectedUser[u]
              \/ /\ chat_messages[i].sender_id = selectedUser[u]
                 /\ chat_messages[i].receiver_id = u

CallbacksOf(bag, u) == {c \in BagToSet(bag) : c.user = u}

\* C22: an identity never has more than one profile; once the callbacks of
\* a browser that holds the identity's session have ended, the identity has
\* exactly one; a profile is created only when none exists, from the
\* identity's metadata, and a callback whose insert runs under the session
\* while none exists creates it.
C22_ExactlyOneProfile ==
    [][\A u \in Users :
          /\ profileRows'[u] <= 1
          /\ (~loading'[u] /\ user'[u] = u /\ CallbacksOf(callbacks', u) = {})
             => profileRows'[u] = 1
          /\ profileRows'[u] > profileRows[u]
             => /\ ~HasProfile(profiles, u)
                /\ profiles'[u] =
                     [role |-> IF MetadataRole[u] = NULL THEN "intern"
                               ELSE MetadataRole[u],
                      points |-> 0]
          /\ \A c \in CallbacksOf(callbacks, u) :
                (/\ c.pc = "insert"
                 /\ callbacks' = callbacks (-) SetToBag({c})
                 /\ user[u] = u
                 /\ ~HasProfile(profiles, u))
                => HasProfile(profiles', u)
      ]_vars

\* two callbacks of one session both found no profile and both sent the
\* insert: the second was refused, the identity has one profile
C22_Witness ==
    \E u \in Users :
        /\ last.op = "onAuthStateChange" /\ last.actor = u
        /\ last.toast = "Profile Error"
        /\ user[u] = u /\ ~loading[u]
        /\ CallbacksOf(callbacks, u) = {}
        /\ profileRows[u] = 1

\* the dashboard the text assigns to a role value
StatedDashboard(role) ==
    IF role = "employee" THEN "EmployeeDashboard"
    ELSE IF role = "admin" THEN "AdminDashboard"
    ELSE "InternDashboard"

\* C30: a browser shows a role dashboard only while loading is false and
\* user and profile are set, and it is the dashboard of profile.role, any
\* value other than the three roles getting the intern dashboard; a
\* Dashboard with loading false and no user has navigated to /auth.
C30_DashboardByRole ==
    /\ \A u \in Users :
          /\ Rendered(u) \in {"InternDashboard", "EmployeeDashboard", "AdminDashboard"}
             => /\ ~loading[u] /\ user[u] # NULL /\ profile[u] # NULL
                /\ Rendered(u) = StatedDashboard(profile[u])
          /\ (~loading[u] /\ user[u] = NULL) => route[u] = AuthRoute
    /\ \A role \in Roles \cup {"manager"} :
          renderDashboard(role) = StatedDashboard(role)

\* one browser shows the employee dashboard of its profile, the other lost
\* its session and shows the auth page
C30_Witness ==
    \E u, v \in Users :
        /\ Rendered(u) = "EmployeeDashboard" /\ profile[u] = "employee"
        /\ ~loading[v] /\ user[v] = NULL /\ route[v] = AuthRoute
====
